---- MODULE Spec2Model ----
(***************************************************************************)
(* Model of asr_stat_significance.py: the StatisticalSignificance class    *)
(* (bootstrap resampling of the WER difference of two ASR systems) and the *)
(* WER_DiffCI result object.                                               *)
(*                                                                         *)
(* Numbers.  A Python/NumPy float is modelled as an extended rational      *)
(* [n |-> numerator, d |-> denominator] in lowest terms with d >= 0:       *)
(* d > 0 is the finite value n/d, and d = 0 is a non-finite IEEE value     *)
(* (n = 0 is nan, n = 1 is +inf, n = -1 is -inf).  Arithmetic follows the  *)
(* NumPy rules (x/0 yields inf or nan with a warning, never an exception;  *)
(* nan propagates; every ordered comparison with nan is false).  Rounding  *)
(* of finite values is not modelled: finite arithmetic is exact.           *)
(* A value that involves np.sqrt is kept as p + c*sqrt(r) (a "surd"), so   *)
(* that orderings and equalities of the interval bounds are decided        *)
(* exactly.                                                                *)
(***************************************************************************)
EXTENDS Integers, Sequences, FiniteSets, TLC

(***************************************************************************)
(* Integer helpers                                                         *)
(***************************************************************************)
Abs(i) == IF i < 0 THEN -i ELSE i

Sgn(i) == IF i < 0 THEN -1 ELSE IF i > 0 THEN 1 ELSE 0

RECURSIVE Gcd(_, _)
Gcd(a, b) == IF b = 0 THEN a ELSE Gcd(b, a % b)

(***************************************************************************)
(* Floats as extended rationals                                            *)
(***************************************************************************)
Norm(num, den) ==
    IF den = 0 THEN [n |-> Sgn(num), d |-> 0]
    ELSE LET s == IF den < 0 THEN -1 ELSE 1
             g == Gcd(Abs(num), Abs(den))
         IN  [n |-> (s * num) \div g, d |-> (s * den) \div g]

FInt(i) == [n |-> i, d |-> 1]

NaN == [n |-> 0, d |-> 0]

IsFinite(x) == x.d > 0

IsNaN(x) == x.d = 0 /\ x.n = 0

\* sign of a value that is not nan (an infinity has the sign of its n)
FSign(x) == Sgn(x.n)

FNeg(x) == [n |-> -x.n, d |-> x.d]

FAdd(x, y) ==
    IF IsNaN(x) \/ IsNaN(y) THEN NaN
    ELSE IF ~IsFinite(x) /\ ~IsFinite(y) THEN (IF x.n = y.n THEN x ELSE NaN)
    ELSE IF ~IsFinite(x) THEN x
    ELSE IF ~IsFinite(y) THEN y
    ELSE LET g == Gcd(x.d, y.d)
         IN  Norm(x.n * (y.d \div g) + y.n * (x.d \div g), (x.d \div g) * y.d)

FSub(x, y) == FAdd(x, FNeg(y))

FMul(x, y) ==
    IF IsNaN(x) \/ IsNaN(y) THEN NaN
    ELSE IF ~IsFinite(x) \/ ~IsFinite(y)
         THEN [n |-> FSign(x) * FSign(y), d |-> 0]
    ELSE LET g1 == Gcd(Abs(x.n), y.d)
             g2 == Gcd(Abs(y.n), x.d)
         IN  Norm((x.n \div g1) * (y.n \div g2), (x.d \div g2) * (y.d \div g1))

\* NumPy true division: a zero divisor gives inf or nan, not an exception
FDiv(x, y) ==
    IF IsNaN(x) \/ IsNaN(y) THEN NaN
    ELSE IF ~IsFinite(y) THEN (IF IsFinite(x) THEN FInt(0) ELSE NaN)
    ELSE IF y.n = 0 THEN [n |-> FSign(x), d |-> 0]
    ELSE IF ~IsFinite(x) THEN [n |-> FSign(x) * FSign(y), d |-> 0]
    ELSE FMul(x, Norm(y.d * Sgn(y.n), Abs(y.n)))

\* IEEE comparisons: false as soon as one side is nan
FLt(x, y) ==
    /\ ~IsNaN(x)
    /\ ~IsNaN(y)
    /\ IF IsFinite(x) /\ IsFinite(y) THEN FSign(FSub(x, y)) < 0
       ELSE IF ~IsFinite(x) /\ ~IsFinite(y) THEN x.n < y.n
       ELSE IF ~IsFinite(x) THEN x.n < 0
       ELSE y.n > 0

FEq(x, y) == ~IsNaN(x) /\ ~IsNaN(y) /\ x = y

FLe(x, y) == FLt(x, y) \/ FEq(x, y)

FMin(x, y) == IF FLt(y, x) THEN y ELSE x

RECURSIVE FSum(_)
FSum(s) == IF s = <<>> THEN FInt(0) ELSE FAdd(FSum(SubSeq(s, 1, Len(s) - 1)), s[Len(s)])

(***************************************************************************)
(* Values that involve np.sqrt: p + c*sqrt(r).  A value without a root     *)
(* part, and every non-finite value, has c = 0 and r = 0.                  *)
(***************************************************************************)
SF(x) == [p |-> x, c |-> FInt(0), r |-> FInt(0)]

SIsFinite(s) == IsFinite(s.p)

SNorm(p, c, r) ==
    IF ~IsFinite(p) \/ ~IsFinite(c) \/ ~IsFinite(r)
    THEN SF(FAdd(p, FMul(c, r)))
    ELSE IF c.n = 0 \/ r.n = 0 THEN SF(p)
    ELSE [p |-> p, c |-> c, r |-> r]

\* np.sqrt: nan for nan and for a negative argument, inf for inf
FSqrt(x) ==
    IF IsNaN(x) THEN SF(NaN)
    ELSE IF ~IsFinite(x) THEN (IF x.n > 0 THEN SF(x) ELSE SF(NaN))
    ELSE IF x.n < 0 THEN SF(NaN)
    ELSE SNorm(FInt(0), FInt(1), x)

\* float * surd
SScale(z, s) ==
    IF s.c.n = 0 THEN SF(FMul(z, s.p))
    ELSE SNorm(FMul(z, s.p), FMul(z, s.c), s.r)

\* the operands of the program share their radicand (or have none)
SSub(a, b) ==
    IF a.c.n = 0 /\ b.c.n = 0 THEN SF(FSub(a.p, b.p))
    ELSE IF ~SIsFinite(a) \/ ~SIsFinite(b) THEN SF(FSub(a.p, b.p))
    ELSE IF b.c.n = 0 THEN SNorm(FSub(a.p, b.p), a.c, a.r)
    ELSE IF a.c.n = 0 THEN SNorm(FSub(a.p, b.p), FNeg(b.c), b.r)
    ELSE IF a.r = b.r THEN SNorm(FSub(a.p, b.p), FSub(a.c, b.c), a.r)
    ELSE CHOOSE s \in {} : TRUE

SAdd(a, b) == SSub(a, [p |-> FNeg(b.p), c |-> FNeg(b.c), r |-> b.r])

\* sign of a/b - c/d for a, c >= 0 and b, d > 0, by Euclid's algorithm (no
\* products, so no overflow)
RECURSIVE CmpFrac(_, _, _, _)
CmpFrac(a, b, c, d) ==
    IF a \div b # c \div d THEN Sgn((a \div b) - (c \div d))
    ELSE IF a % b = 0 \/ c % d = 0 THEN Sgn((a % b) - (c % d))
    ELSE CmpFrac(d, c % d, b, a % b)

\* sign of a finite value: p and c of opposite signs compare p^2 with c^2 * r
SSign(s) ==
    IF s.c.n = 0 THEN FSign(s.p)
    ELSE IF s.p.n = 0 THEN FSign(s.c)
    ELSE IF FSign(s.p) = FSign(s.c) THEN FSign(s.p)
    ELSE LET t == FDiv(s.p, s.c)
             t2 == FMul(t, t)
         IN  CmpFrac(t2.n, t2.d, s.r.n, s.r.d) * FSign(s.p)

SIsNaN(s) == IsNaN(s.p)

\* IEEE comparisons: false as soon as one side is nan
SLt(a, b) ==
    /\ ~SIsNaN(a)
    /\ ~SIsNaN(b)
    /\ IF SIsFinite(a) /\ SIsFinite(b) THEN SSign(SSub(a, b)) < 0 ELSE FLt(a.p, b.p)

SEq(a, b) ==
    /\ ~SIsNaN(a)
    /\ ~SIsNaN(b)
    /\ IF SIsFinite(a) /\ SIsFinite(b) THEN SSign(SSub(a, b)) = 0 ELSE FEq(a.p, b.p)

SLe(a, b) == SLt(a, b) \/ SEq(a, b)

(***************************************************************************)
(* Bounds of the model                                                     *)
(***************************************************************************)
MaxTotalBatch == 2

MaxSamples == 2

(***************************************************************************)
(* Inputs.  A line of the input file is its integer fields (nums) and the  *)
(* fields that follow them (extra); an optional argument is <<>> for None  *)
(* and <<v>> for the value v.                                              *)
(***************************************************************************)
Line(nums, extra) == [nums |-> nums, extra |-> extra]

InputFiles ==
    { << Line(<<5, 5, 10>>, <<>>) >>,
      << Line(<<1, 1, 2>>, <<>>), Line(<<0, 0, 2>>, <<>>), Line(<<3>>, <<>>),
         Line(<<2, 3, 2>>, <<"b1">>) >>,
      << Line(<<1, 0, 0>>, <<>>), Line(<<0, 3, 2>>, <<"b1">>),
         Line(<<0, 1, 2>>, <<"b1">>) >> }

ConfidenceLevels == { Norm(90, 100), Norm(95, 100), Norm(99, 100), Norm(1, 2), FInt(1) }

None == <<>>

Some(v) == <<v>>

SampleSizes == {None} \cup { Some(k) : k \in 1..MaxSamples }

(***************************************************************************)
(* StatisticalSignificance                                                 *)
(***************************************************************************)
\* self.z_scores
z_scores ==
    [c \in { Norm(90, 100), Norm(95, 100), Norm(99, 100) } |->
        IF c = Norm(90, 100) THEN Norm(1645, 1000)
        ELSE IF c = Norm(95, 100) THEN Norm(1960, 1000)
        ELSE Norm(2576, 1000)]

cap_wer(errors, total_words) ==
    IF total_words > 0
    THEN FMin(FDiv(FInt(errors), FInt(total_words)), FInt(1))
    ELSE FInt(0)

\* position of block in the dict data_wer (insertion order), 0 when absent
BlockIndex(data, block) ==
    IF \E i \in 1..Len(data) : data[i].block = block
    THEN CHOOSE i \in 1..Len(data) : data[i].block = block
    ELSE 0

\* a row of the array of a block: columns 0, 1, 2 are fields 1, 2, 3
RECURSIVE process_text_file(_)
process_text_file(lines) ==
    IF lines = <<>> THEN <<>>
    ELSE LET data == process_text_file(SubSeq(lines, 1, Len(lines) - 1))
             l == lines[Len(lines)]
         IN  IF Len(l.nums) + Len(l.extra) >= 3
             THEN LET edit_wer_a == l.nums[1]
                      edit_wer_b == l.nums[2]
                      num_words == l.nums[3]
                      block == IF Len(l.nums) + Len(l.extra) = 4 THEN l.extra[1]
                               ELSE "default"
                      wer_b == cap_wer(edit_wer_b, num_words)
                      row == << FInt(edit_wer_a), wer_b, FInt(num_words) >>
                      i == BlockIndex(data, block)
                  IN  IF i > 0
                      THEN [data EXCEPT ![i].rows = Append(@, row)]
                      ELSE Append(data, [block |-> block, rows |-> << row >>])
             ELSE data

\* np.random.randint(low, high, size): the arrays it can return
randint(low, high, size) == [1..size -> low..(high - 1)]

\* random_sample: the outcomes of one call, each the sample returned and the
\* array passed in as the call leaves it
random_sample_shuffle(data, num_samples) ==
    LET size == IF num_samples < Len(data) THEN num_samples ELSE Len(data)
    IN  { [sample |-> SubSeq([i \in 1..Len(data) |-> data[pi[i]]], 1, size),
           data |-> [i \in 1..Len(data) |-> data[pi[i]]]] :
            pi \in { f \in [1..Len(data) -> 1..Len(data)] :
                        \A x, y \in 1..Len(data) : f[x] = f[y] => x = y } }

random_sample_no_replacement(data, num_samples) ==
    LET size == IF num_samples < Len(data) THEN num_samples ELSE Len(data)
    IN  { [sample |-> [i \in 1..size |-> data[random_index[i] + 1]], data |-> data] :
            random_index \in randint(0, Len(data), size) }

random_sample(data, num_samples) ==
    { [sample |-> [i \in 1..num_samples |-> data[random_index[i] + 1]], data |-> data] :
        random_index \in randint(0, Len(data), num_samples) }

Column(data, j) == [i \in 1..Len(data) |-> data[i][j + 1]]

wer_change(data) ==
    FDiv(FSum([i \in 1..Len(data) |-> FSub(Column(data, 1)[i], Column(data, 0)[i])]),
         FSum(Column(data, 2)))

np_mean(a) == FDiv(FSum(a), FInt(Len(a)))

standard_error(wer_chg, wer_change_mean) ==
    LET dev == [i \in 1..Len(wer_chg) |-> FSub(wer_chg[i], wer_change_mean)]
        std_dev == FDiv(FSum([i \in 1..Len(dev) |-> FMul(dev[i], dev[i])]),
                        FInt(Len(wer_chg) - 1))
    IN  FSqrt(std_dev)

RECURSIVE np_vstack(_)
np_vstack(arrays) ==
    IF arrays = <<>> THEN <<>>
    ELSE np_vstack(SubSeq(arrays, 1, Len(arrays) - 1)) \o arrays[Len(arrays)]

\* np.percentile(a, q) with the default linear interpolation, for one q
RECURSIVE Insert(_, _)
Insert(sorted, x) ==
    IF sorted = <<>> THEN << x >>
    ELSE IF FLt(x, sorted[1]) THEN << x >> \o sorted
    ELSE << sorted[1] >> \o Insert(Tail(sorted), x)

RECURSIVE Sort(_)
Sort(a) == IF a = <<>> THEN <<>> ELSE Insert(Sort(Tail(a)), a[1])

LinearPercentile(a, q) ==
    IF \E i \in 1..Len(a) : IsNaN(a[i]) THEN NaN
    ELSE LET sorted == Sort(a)
             pos == FMul(FDiv(q, FInt(100)), FInt(Len(a) - 1))
             lo == pos.n \div pos.d
             hi == IF lo + 1 < Len(a) THEN lo + 1 ELSE lo
             g == FSub(pos, FInt(lo))
         IN  FAdd(sorted[lo + 1], FMul(g, FSub(sorted[hi + 1], sorted[lo + 1])))

\* a Python value with its type, where the type decides what a call does
PyFloat(x) == [pytype |-> "float", v |-> x]

\* np.percentile(a, q, axis): axis must be an integer (operator.index);
\* for a list q the value is an array with one entry per element of q
np_percentile(a, q, axis) ==
    IF axis.pytype # "int"
    THEN [error |-> "TypeError", value |-> <<>>]
    ELSE [error |-> "", value |-> [i \in 1..Len(q) |-> LinearPercentile(a, q[i])]]

(***************************************************************************)
(* WER_DiffCI                                                              *)
(***************************************************************************)
WER_DiffCI(wer_diff_bootstrap, ci_high, ci_low, std_err, confidence_level, wer_diff_absolute) ==
    [ci_low |-> ci_low,
     ci_high |-> ci_high,
     std_err |-> std_err,
     wer_diff_bootstrap |-> wer_diff_bootstrap,
     wer_diff_absolute |-> wer_diff_absolute,
     confidence_level |-> confidence_level]

is_significant_low_only(self) == SLt(self.ci_low, SF(FInt(0)))

is_significant(self) == SLt(self.ci_low, SF(FInt(0))) /\ SLt(self.ci_high, SF(FInt(0)))

NoResult == WER_DiffCI(NaN, SF(NaN), SF(NaN), SF(NaN), NaN, None)

(***************************************************************************)
(* State.  The fields of a StatisticalSignificance object, and the locals  *)
(* of its current (or last) compute_significance call.                     *)
(***************************************************************************)
VARIABLES
    data_wer,            \* self.data_wer: the blocks in insertion order
    total_batch,         \* self.total_batch
    use_gaussian_appr,   \* self.use_gaussian_appr
    pc,                  \* "idle", "bootstrap" (in a driver's loop), "estimate", "done"
    status,              \* of the call: "none", "running", "returned", or the exception raised
    args,                \* the arguments of the call
    data_expanded,       \* the pooled array (pooled mode)
    change_in_wer_arr,   \* the driver's list of statistics
    block_samples,       \* block mode: the list sample_data before np.vstack
    sample_data,         \* the sample of the last iteration
    absolute_wer_diff,   \* None or the statistic of the pooled data
    result,              \* the WER_DiffCI returned (status = "returned")
    n_random_sample,     \* calls of random_sample in this call
    n_wer_change         \* calls of wer_change in this call

vars == << data_wer, total_batch, use_gaussian_appr, pc, status, args, data_expanded,
           change_in_wer_arr, block_samples, sample_data, absolute_wer_diff, result,
           n_random_sample, n_wer_change >>

fields == << data_wer, total_batch, use_gaussian_appr >>

NoArgs ==
    [num_samples_per_batch |-> None, num_samples_per_block |-> None,
     confidence_level |-> Norm(95, 100), use_blockwise_bootstrap |-> FALSE]

\* StatisticalSignificance.__init__
Init ==
    /\ \E lines \in InputFiles : data_wer = process_text_file(lines)
    /\ total_batch \in 1..MaxTotalBatch
    /\ use_gaussian_appr \in BOOLEAN
    /\ pc = "idle"
    /\ status = "none"
    /\ args = NoArgs
    /\ data_expanded = <<>>
    /\ change_in_wer_arr = <<>>
    /\ block_samples = <<>>
    /\ sample_data = <<>>
    /\ absolute_wer_diff = None
    /\ result = NoResult
    /\ n_random_sample = 0
    /\ n_wer_change = 0

\* the asserts of compute_significance, in order
confidence_below_one_or_equal(confidence_level) == FLe(confidence_level, FInt(1))

confidence_below_one(confidence_level) == FLt(confidence_level, FInt(1))

Validate(a) ==
    IF ~confidence_below_one(a.confidence_level) THEN "AssertionError"
    ELSE IF a.use_blockwise_bootstrap /\ a.num_samples_per_block = None
         THEN "AssertionError"
    ELSE IF ~a.use_blockwise_bootstrap /\ a.num_samples_per_batch = None
         THEN "AssertionError"
    ELSE IF use_gaussian_appr /\ a.confidence_level \notin DOMAIN z_scores
         THEN "AssertionError"
    ELSE "ok"

\* compute_significance up to the call of a driver: the asserts, then the
\* pooled array (np.vstack copies; with one block it is that block's array)
compute_significance(a) ==
    /\ pc = "idle"
    /\ args' = a
    /\ change_in_wer_arr' = <<>>
    /\ block_samples' = <<>>
    /\ sample_data' = <<>>
    /\ absolute_wer_diff' = None
    /\ result' = NoResult
    /\ n_random_sample' = 0
    /\ n_wer_change' = 0
    /\ IF Validate(a) = "ok"
       THEN /\ pc' = "bootstrap"
            /\ status' = "running"
            /\ data_expanded' =
                 IF a.use_blockwise_bootstrap THEN <<>>
                 ELSE IF Len(data_wer) > 1
                      THEN np_vstack([i \in 1..Len(data_wer) |-> data_wer[i].rows])
                      ELSE data_wer[1].rows
       ELSE /\ pc' = "done"
            /\ status' = Validate(a)
            /\ data_expanded' = <<>>
    /\ UNCHANGED fields

\* for _ in range(n): the loop runs its body once more
range_has_next_inclusive(done, n) == done <= n

range_has_next(done, n) == done < n

\* one iteration of bootstap_sampling on data_expanded
bootstap_sampling ==
    /\ pc = "bootstrap"
    /\ ~args.use_blockwise_bootstrap
    /\ range_has_next(Len(change_in_wer_arr), total_batch)
    /\ \E o \in random_sample(data_expanded, args.num_samples_per_batch[1]) :
         /\ sample_data' = o.sample
         /\ data_expanded' = o.data
         \* with one block data_expanded is the block's array itself
         /\ data_wer' = IF Len(data_wer) > 1 THEN data_wer
                        ELSE [data_wer EXCEPT ![1].rows = o.data]
         /\ change_in_wer_arr' = Append(change_in_wer_arr, wer_change(o.sample))
    /\ n_random_sample' = n_random_sample + 1
    /\ n_wer_change' = n_wer_change + 1
    /\ UNCHANGED << total_batch, use_gaussian_appr, pc, status, args, block_samples,
                    absolute_wer_diff, result >>

\* the outcomes of the inner loop over the blocks: one random_sample per block
BlockOutcomes(data, num_samples_per_block) ==
    { f \in [1..Len(data) ->
               UNION { random_sample(data[i].rows, num_samples_per_block) :
                         i \in 1..Len(data) }] :
        \A i \in 1..Len(data) : f[i] \in random_sample(data[i].rows, num_samples_per_block) }

\* one iteration of bootstap_sampling_block on self.data_wer
bootstap_sampling_block ==
    /\ pc = "bootstrap"
    /\ args.use_blockwise_bootstrap
    /\ range_has_next(Len(change_in_wer_arr), total_batch)
    /\ \E f \in BlockOutcomes(data_wer, args.num_samples_per_block[1]) :
         /\ block_samples' = [i \in 1..Len(data_wer) |-> f[i].sample]
         /\ sample_data' = np_vstack([i \in 1..Len(data_wer) |-> f[i].sample])
         /\ data_wer' = [i \in 1..Len(data_wer) |-> [data_wer[i] EXCEPT !.rows = f[i].data]]
         /\ change_in_wer_arr' =
              Append(change_in_wer_arr,
                     wer_change(np_vstack([i \in 1..Len(data_wer) |-> f[i].sample])))
    /\ n_random_sample' = n_random_sample + Len(data_wer)
    /\ n_wer_change' = n_wer_change + 1
    /\ UNCHANGED << total_batch, use_gaussian_appr, pc, status, args, data_expanded,
                    absolute_wer_diff, result >>

\* the driver's loop ends and it returns np.array(change_in_wer_arr); in
\* pooled mode compute_significance then computes absolute_wer_diff
driver_return ==
    /\ pc = "bootstrap"
    /\ ~range_has_next(Len(change_in_wer_arr), total_batch)
    /\ pc' = "estimate"
    /\ IF args.use_blockwise_bootstrap
       THEN UNCHANGED << absolute_wer_diff, n_wer_change >>
       ELSE /\ absolute_wer_diff' = Some(wer_change(data_expanded))
            /\ n_wer_change' = n_wer_change + 1
    /\ UNCHANGED << fields, status, args, data_expanded, change_in_wer_arr, block_samples,
                    sample_data, result, n_random_sample >>

\* compute_significance from the standard error to the return
Estimation(a, arr, wer_diff_absolute) ==
    LET wer_diff_bootstrap == np_mean(arr)
        std_err_bootstrap == standard_error(arr, wer_diff_bootstrap)
    IN  IF use_gaussian_appr
        THEN LET z_score == z_scores[a.confidence_level]
                 ci_low == SAdd(SF(wer_diff_bootstrap), SScale(z_score, std_err_bootstrap))
                 ci_high == SSub(SF(wer_diff_bootstrap), SScale(z_score, std_err_bootstrap))
             IN  [status |-> "returned",
                  result |-> WER_DiffCI(wer_diff_bootstrap, ci_low, ci_high,
                                        std_err_bootstrap, a.confidence_level,
                                        wer_diff_absolute)]
        ELSE LET interval == FDiv(FSub(FInt(1), a.confidence_level), FInt(2))
                 pct == np_percentile(arr,
                                      << FMul(FSub(FInt(1), interval), FInt(100)) >>,
                                      PyFloat(FMul(interval, FInt(100))))
             IN  IF pct.error # "" THEN [status |-> pct.error, result |-> NoResult]
                 ELSE IF Len(pct.value) # 2
                      THEN [status |-> "ValueError", result |-> NoResult]
                 ELSE [status |-> "returned",
                       result |-> WER_DiffCI(wer_diff_bootstrap, SF(pct.value[1]),
                                             SF(pct.value[2]), std_err_bootstrap,
                                             a.confidence_level, wer_diff_absolute)]

estimate ==
    /\ pc = "estimate"
    /\ pc' = "done"
    /\ status' = Estimation(args, change_in_wer_arr, absolute_wer_diff).status
    /\ result' = Estimation(args, change_in_wer_arr, absolute_wer_diff).result
    /\ UNCHANGED << fields, args, data_expanded, change_in_wer_arr, block_samples,
                    sample_data, absolute_wer_diff, n_random_sample, n_wer_change >>

\* the caller has the WER_DiffCI or the exception; the locals of the call are
\* gone and the object is ready for its next call
caller_continues ==
    /\ pc = "done"
    /\ pc' = "idle"
    /\ status' = "none"
    /\ args' = NoArgs
    /\ data_expanded' = <<>>
    /\ change_in_wer_arr' = <<>>
    /\ block_samples' = <<>>
    /\ sample_data' = <<>>
    /\ absolute_wer_diff' = None
    /\ result' = NoResult
    /\ n_random_sample' = 0
    /\ n_wer_change' = 0
    /\ UNCHANGED fields

\* the size argument of the mode that is not used is None or 1
Call ==
    \E k \in SampleSizes, m \in SampleSizes, c \in ConfidenceLevels, b \in BOOLEAN :
        /\ (IF b THEN k ELSE m) \in {None, Some(1)}
        /\ compute_significance([num_samples_per_batch |-> k, num_samples_per_block |-> m,
                                 confidence_level |-> c, use_blockwise_bootstrap |-> b])

Next ==
    \/ Call
    \/ caller_continues
    \/ bootstap_sampling
    \/ bootstap_sampling_block
    \/ driver_return
    \/ estimate

Spec == Init /\ [][Next]_vars

(***************************************************************************)
(* Properties                                                              *)
(***************************************************************************)
Zero == SF(FInt(0))

WordSum(data) == FSum(Column(data, 2))

\* an iteration of a driver has run in the current call
Sampled == pc \in {"bootstrap", "estimate", "done"} /\ Len(change_in_wer_arr) > 0

Returned == pc = "done" /\ status = "returned"

\* the ratio of sums with model B's WER weighted by the word count
WeightedWerChange(data) ==
    FDiv(FSub(FSum([i \in 1..Len(data) |-> FMul(data[i][2], data[i][3])]),
              FSum([i \in 1..Len(data) |-> data[i][1]])),
         WordSum(data))

\* C1: for a non-empty sample with a non-zero word-count sum, wer_change is
\* (sum of wer_b*num_words - sum of errors_a) / sum of num_words; for the one
\* record (5, 0.5, 10) that is 0.0.
C1_WeightedRatioOfSums ==
    (Sampled /\ Len(sample_data) > 0 /\ WordSum(sample_data).n # 0)
        => FEq(change_in_wer_arr[Len(change_in_wer_arr)], WeightedWerChange(sample_data))

\* C2: every call that passes validation and returns a WER_DiffCI stores
\* ci_low <= ci_high, whichever strategy and mode.
C2_IntervalOrdered == Returned => SLe(result.ci_low, result.ci_high)

\* what holds of C2 on the code: the two swaps cancel, so the bounds are
\* ordered whenever the standard error is a number
C2_OrderedWhenStdErrIsNumber ==
    (Returned /\ ~SIsNaN(result.std_err)) => SLe(result.ci_low, result.ci_high)

C2_OrderedCase ==
    Returned /\ SLt(result.ci_low, result.ci_high)

ValidPercentileCall ==
    /\ ~use_gaussian_appr
    /\ FLt(FInt(0), args.confidence_level)
    /\ FLt(args.confidence_level, FInt(1))
    /\ IF args.use_blockwise_bootstrap THEN args.num_samples_per_block # None
       ELSE args.num_samples_per_batch # None

Alpha == FDiv(FSub(FInt(1), args.confidence_level), FInt(2))

\* C3: with use_gaussian_appr false and a valid configuration, the call
\* returns a WER_DiffCI whose bounds are the alpha and 1 - alpha percentiles of
\* the sampling distribution; it does not end in an error.
C3_PercentileBounds ==
    (pc = "done" /\ ValidPercentileCall)
        => /\ status = "returned"
           /\ result.ci_low =
                SF(LinearPercentile(change_in_wer_arr, FMul(Alpha, FInt(100))))
           /\ result.ci_high =
                SF(LinearPercentile(change_in_wer_arr,
                                    FMul(FSub(FInt(1), Alpha), FInt(100))))

StrictlyNegative(s) ==
    /\ ~SIsNaN(s)
    /\ IF SIsFinite(s) THEN SSign(s) = -1 ELSE s.p.n = -1

\* C4: is_significant() is true exactly when both stored bounds are strictly
\* negative; an interval above zero, touching zero or straddling zero is not
\* significant.
C4_SignificantIffBothNegative ==
    Returned =>
        (is_significant(result)
            <=> (StrictlyNegative(result.ci_low) /\ StrictlyNegative(result.ci_high)))

\* an interval entirely above zero is reported as not significant
C4_AboveZeroNotSignificant ==
    /\ Returned
    /\ SLt(Zero, result.ci_low)
    /\ SLt(result.ci_low, result.ci_high)
    /\ ~is_significant(result)

C4_StraddlingNotSignificant ==
    Returned /\ SLt(result.ci_low, Zero) /\ SLt(Zero, result.ci_high)
        /\ ~is_significant(result)

C4_TouchingZeroNotSignificant ==
    Returned /\ SEq(result.ci_low, Zero) /\ ~is_significant(result)

C4_BothNegativeSignificant ==
    Returned /\ SLt(result.ci_low, result.ci_high) /\ is_significant(result)

\* the four configurations of the claim
ConfigRejected(a) ==
    \/ ~FLt(a.confidence_level, FInt(1))
    \/ a.use_blockwise_bootstrap /\ a.num_samples_per_block = None
    \/ ~a.use_blockwise_bootstrap /\ a.num_samples_per_batch = None
    \/ use_gaussian_appr
         /\ a.confidence_level \notin { Norm(90, 100), Norm(95, 100), Norm(99, 100) }

\* C5: a call with confidence_level >= 1, without the sample size of its
\* mode, or in Gaussian mode with a level outside {0.90, 0.95, 0.99} ends in
\* an error before any random draw and any statistic computation.
C5_RejectedBeforeResampling ==
    (pc # "idle" /\ ConfigRejected(args))
        => /\ pc = "done"
           /\ status = "AssertionError"
           /\ n_random_sample = 0
           /\ n_wer_change = 0
           /\ change_in_wer_arr = <<>>
           /\ sample_data = <<>>

C5_UnsupportedGaussianLevel ==
    /\ pc = "done"
    /\ status = "AssertionError"
    /\ use_gaussian_appr
    /\ args.confidence_level = Norm(1, 2)
    /\ ~args.use_blockwise_bootstrap
    /\ args.num_samples_per_batch # None

\* C6: a statistic computed over a sample whose num_words sum is zero fails
\* with an error that aborts the call: no WER_DiffCI is returned from such a
\* run.
C6_ZeroWordSumAborts ==
    (pc = "done" /\ Sampled /\ WordSum(sample_data).n = 0) => status # "returned"

\* C7: no step of any sequence of calls changes the Dataset held by the
\* object.
C7_DatasetUnchanged == [][data_wer' = data_wer]_vars

\* a pooled call has resampled from the array of the only block (which
\* data_expanded aliases) and returned
C7_ResampledFromDataset ==
    /\ Returned
    /\ n_random_sample > 0
    /\ Len(data_wer) = 1
    /\ ~args.use_blockwise_bootstrap

\* C8: every iteration of the block-stratified bootstrap draws exactly m
\* records from each block, each a record of that block, and the combined
\* sample has m * (number of blocks) records, whatever the sizes of the blocks.
C8_BlockStratified ==
    (Sampled /\ args.use_blockwise_bootstrap) =>
        LET m == args.num_samples_per_block[1]
        IN  /\ Len(block_samples) = Len(data_wer)
            /\ \A b \in 1..Len(data_wer) :
                 /\ Len(block_samples[b]) = m
                 /\ \A j \in 1..m :
                      \E r \in 1..Len(data_wer[b].rows) :
                          block_samples[b][j] = data_wer[b].rows[r]
            /\ Len(sample_data) = m * Len(data_wer)
            /\ sample_data = np_vstack(block_samples)

\* a block of one record is sampled twice
C8_OversampledBlock ==
    /\ Sampled
    /\ args.use_blockwise_bootstrap
    /\ args.num_samples_per_block = Some(2)
    /\ Len(data_wer) = 2
    /\ \E b \in 1..Len(data_wer) : Len(data_wer[b].rows) = 1
    /\ Len(sample_data) = 4

RandomSamplesPerIteration == IF args.use_blockwise_bootstrap THEN Len(data_wer) ELSE 1

\* the counts of a driver; an iteration that is due can run (the arrays
\* sampled are not empty), so the loop reaches its end
C9_Counts ==
    /\ pc = "bootstrap" =>
         /\ Len(change_in_wer_arr) <= total_batch
         /\ Len(change_in_wer_arr) < total_batch =>
              IF args.use_blockwise_bootstrap
              THEN BlockOutcomes(data_wer, args.num_samples_per_block[1]) # {}
              ELSE random_sample(data_expanded, args.num_samples_per_batch[1]) # {}
         /\ n_wer_change = Len(change_in_wer_arr)
         /\ n_random_sample = Len(change_in_wer_arr) * RandomSamplesPerIteration
    /\ Sampled =>
         change_in_wer_arr[Len(change_in_wer_arr)] = wer_change(sample_data)
    /\ pc = "estimate" =>
         /\ Len(change_in_wer_arr) = total_batch
         /\ n_random_sample = total_batch * RandomSamplesPerIteration
         /\ n_wer_change = total_batch + (IF args.use_blockwise_bootstrap THEN 0 ELSE 1)

C9_AppendOnly ==
    (pc = "bootstrap" /\ pc' = "bootstrap") =>
        /\ Len(change_in_wer_arr') = Len(change_in_wer_arr) + 1
        /\ SubSeq(change_in_wer_arr', 1, Len(change_in_wer_arr)) = change_in_wer_arr

\* C9: both drivers end after exactly total_batch iterations, each one
\* resample followed by one statistic appended in iteration order, and return
\* a sampling distribution of length total_batch.
C9_DriversTerminate == []C9_Counts /\ [][C9_AppendOnly]_vars

C9_DriverReturned ==
    /\ pc = "estimate"
    /\ args.use_blockwise_bootstrap
    /\ Len(change_in_wer_arr) = MaxTotalBatch

AllIterationsIdentical ==
    /\ Len(change_in_wer_arr) = total_batch
    /\ \A i \in 1..Len(change_in_wer_arr) : FEq(change_in_wer_arr[i], change_in_wer_arr[1])

\* C10: if every bootstrap iteration yields the identical statistic value
\* (total_batch >= 2), the WER_DiffCI returned has std_err == 0 and
\* ci_low == ci_high == wer_diff_bootstrap, under either strategy.
C10_ZeroVariance ==
    (pc = "done" /\ total_batch >= 2 /\ AllIterationsIdentical)
        => /\ status = "returned"
           /\ SEq(result.std_err, Zero)
           /\ SEq(result.ci_low, result.ci_high)
           /\ SEq(result.ci_low, SF(result.wer_diff_bootstrap))

\* what holds of C10 on the code: Gaussian strategy, a finite value
C10_GaussianFinite ==
    (pc = "done" /\ total_batch >= 2 /\ AllIterationsIdentical /\ use_gaussian_appr
        /\ IsFinite(change_in_wer_arr[1]))
        => /\ status = "returned"
           /\ SEq(result.std_err, Zero)
           /\ SEq(result.ci_low, result.ci_high)
           /\ SEq(result.ci_low, SF(result.wer_diff_bootstrap))

====
